---- MODULE Spec2Model ----
(***************************************************************************)
(* A model of idpyoidc.client.service.Service: the request side            *)
(* (gather_request_args, construct, init_authentication_method,            *)
(* get_request_parameters) and the response side (parse_response).         *)
(*                                                                         *)
(* Python dicts are functions whose DOMAIN is the key set.  Values are     *)
(* strings; "" is the falsy value and None the value dict.get() gives for  *)
(* a missing key.  External collaborators (hooks, authentication           *)
(* strategies, the JOSE library, the message classes) are modelled by the  *)
(* outcome they deliver, which is drawn from the inputs of a call.         *)
(***************************************************************************)
EXTENDS Integers, Sequences, FiniteSets, TLC

VARIABLES
    conf,                    \* self.conf: the mapping handed to __init__ (same object)
    default_request_args,    \* self.default_request_args
    client_authn_methods,    \* self.client_authn_methods: service-local registry
    default_authn_method,    \* self.default_authn_method
    http_method,             \* self.http_method
    request_body_type,       \* self.request_body_type
    response_body_type,      \* self.response_body_type
    response_cls,            \* self.response_cls: "Message" for a message class, or "list"
    msg_type,                \* self.msg_type.c_param: the fields the request schema declares
    pre_construct,           \* self.pre_construct: hook chain
    post_construct,          \* self.post_construct: hook chain
    construct_extra_headers, \* self.construct_extra_headers: hook chain
    context,                 \* upstream_get("context"): the shared client context
    result                   \* what the last call returned or raised

svcVars == <<conf, default_request_args, client_authn_methods, default_authn_method,
             http_method, request_body_type, response_body_type, response_cls, msg_type,
             context>>
hookVars == <<pre_construct, post_construct, construct_extra_headers>>
vars == <<svcVars, hookVars, result>>

---------------------------------------------------------------------------
(* Bounds *)

\* longest hook chain registered on a service
MaxHooks == 2

---------------------------------------------------------------------------
(* Python values and dicts *)

None == "<None>"
EmptyDict == [k \in {} |-> None]

\* None where a dict is expected (an argument left at its default)
NoneDict == [k \in {None} |-> None]

\* Python truthiness of a value: None and the empty string are falsy
Truthy(v) == v \notin {None, ""}

\* d.get(k)
Get(d, k) == IF k \in DOMAIN d THEN d[k] ELSE None

\* d.update(e): e's entries win
Update(d, e) == [k \in DOMAIN d \cup DOMAIN e |-> IF k \in DOMAIN e THEN e[k] ELSE d[k]]

\* del d[k]
Del(d, k) == [j \in DOMAIN d \ {k} |-> d[j]]

\* d[k] = v
Put(d, k, v) == [j \in DOMAIN d \cup {k} |-> IF j = k THEN v ELSE d[j]]

\* all dicts with keys among ks and values among vs
Dicts(ks, vs) == UNION {[s -> vs] : s \in SUBSET ks}

---------------------------------------------------------------------------
(* Class attributes of Service *)

ClassDefaultAuthnMethod == ""
ClassHttpMethod == "GET"
ClassRequestBodyType == "urlencoded"
ClassResponseBodyType == "json"
ClassResponseCls == "Message"

\* the value conf gives a class attribute, when it names it
ConfAttr(c, param, classValue) == IF param \in DOMAIN c THEN c[param] ELSE classValue

\* client_auth_setup / single_authn_setup: the strategy object registered
\* under an identifier; the scope tells the two registries' strategies apart
Strategy(scope, id) == [scope |-> scope, id |-> id]

\* Service.__init__ as it would be without the del of line 108:
\* conf["request_args"] stays in conf
Service__init__KeepsRequestArgs(c) ==
    LET dam == ConfAttr(c, "default_authn_method", ClassDefaultAuthnMethod)
        dra == IF "request_args" \in DOMAIN c THEN c["request_args"] ELSE EmptyDict
        cam0 == IF "client_authn_methods" \in DOMAIN c
                THEN [m \in c["client_authn_methods"] |-> Strategy("service", m)]
                ELSE EmptyDict
        cam == IF dam # "" /\ dam \notin DOMAIN cam0
               THEN Put(cam0, dam, Strategy("service", dam)) ELSE cam0
    IN [conf |-> c,
        default_request_args |-> dra,
        client_authn_methods |-> cam,
        default_authn_method |-> dam,
        http_method |-> ConfAttr(c, "http_method", ClassHttpMethod),
        request_body_type |-> ConfAttr(c, "request_body_type", ClassRequestBodyType),
        response_body_type |-> ConfAttr(c, "response_body_type", ClassResponseBodyType),
        response_cls |-> ConfAttr(c, "response_cls", ClassResponseCls)]

\* Service.__init__(upstream_get, conf): the fields of the new service, and
\* conf as the constructor leaves it
Service__init__(c) ==
    IF c # EmptyDict
    THEN LET dam == ConfAttr(c, "default_authn_method", ClassDefaultAuthnMethod)
             _default_request_args == IF "request_args" \in DOMAIN c
                                      THEN c["request_args"] ELSE EmptyDict
             moved == _default_request_args # EmptyDict
             _client_authn_methods == IF "client_authn_methods" \in DOMAIN c
                                      THEN c["client_authn_methods"] ELSE {}
             cam0 == [m \in _client_authn_methods |-> Strategy("service", m)]
             cam == IF dam # "" /\ dam \notin DOMAIN cam0
                    THEN Put(cam0, dam, Strategy("service", dam)) ELSE cam0
         IN [conf |-> IF moved THEN Del(c, "request_args") ELSE c,
             default_request_args |-> IF moved THEN _default_request_args ELSE EmptyDict,
             client_authn_methods |-> cam,
             default_authn_method |-> dam,
             http_method |-> ConfAttr(c, "http_method", ClassHttpMethod),
             request_body_type |-> ConfAttr(c, "request_body_type", ClassRequestBodyType),
             response_body_type |-> ConfAttr(c, "response_body_type", ClassResponseBodyType),
        response_cls |-> ConfAttr(c, "response_cls", ClassResponseCls)]
    ELSE [conf |-> EmptyDict,
          default_request_args |-> EmptyDict,
          client_authn_methods |->
              IF ClassDefaultAuthnMethod # ""
              THEN Put(EmptyDict, ClassDefaultAuthnMethod,
                       Strategy("service", ClassDefaultAuthnMethod))
              ELSE EmptyDict,
          default_authn_method |-> ClassDefaultAuthnMethod,
          http_method |-> ClassHttpMethod,
          request_body_type |-> ClassRequestBodyType,
          response_body_type |-> ClassResponseBodyType,
          response_cls |-> ClassResponseCls]

---------------------------------------------------------------------------
(* Parameter resolution *)

\* the shared context's usage lookup: collect_usage(), and
\* map_preferred_to_registered() when that is empty
UsageOf(ctx) == IF ctx.usage = EmptyDict THEN ctx.registered ELSE ctx.usage

\* gather_request_args with the per-service default consulted before the
\* context's usage
gather_request_argsDefaultFirst(cf, dra, c_param, ctx, kwargs) ==
    LET _use == UsageOf(ctx)
        ar0 == IF "request_args" \in DOMAIN cf
               THEN Update(kwargs, cf["request_args"]) ELSE kwargs
        val(prop) == IF Truthy(Get(dra, prop)) THEN Get(dra, prop) ELSE Get(_use, prop)
        added == {prop \in c_param \ DOMAIN ar0 : Truthy(val(prop))}
        ar1 == [k \in DOMAIN ar0 \cup added |-> IF k \in DOMAIN ar0 THEN ar0[k] ELSE val(k)]
    IN [k \in DOMAIN ar1 \cup DOMAIN dra |-> IF k \in DOMAIN ar1 THEN ar1[k] ELSE dra[k]]

\* Service.gather_request_args(**kwargs) of a service with conf cf, default
\* request args dra and request schema c_param, on context ctx
gather_request_args(cf, dra, c_param, ctx, kwargs) ==
    LET _use == UsageOf(ctx)
        \* ar_args = kwargs.copy(); ar_args.update(self.conf["request_args"])
        ar0 == IF "request_args" \in DOMAIN cf
               THEN Update(kwargs, cf["request_args"]) ELSE kwargs
        \* val = _use.get(prop); if not val: val = default_request_args.get(prop)
        val(prop) == IF Truthy(Get(_use, prop)) THEN Get(_use, prop) ELSE Get(dra, prop)
        \* for prop in c_param: skip those in ar_args, add those with a truthy val
        added == {prop \in c_param \ DOMAIN ar0 : Truthy(val(prop))}
        ar1 == [k \in DOMAIN ar0 \cup added |-> IF k \in DOMAIN ar0 THEN ar0[k] ELSE val(k)]
        \* for key, val in default_request_args.items(): add the keys still absent
    IN [k \in DOMAIN ar1 \cup DOMAIN dra |-> IF k \in DOMAIN ar1 THEN ar1[k] ELSE dra[k]]

---------------------------------------------------------------------------
(* Construction hooks *)

\* the pre-construction hooks a service may carry
PreHooks == {"set_state", "add_scope"}

\* one pre-construction hook, meth(request_args, service, post_args, **_args):
\* the request args it returns, the accumulator object post_args as the hook
\* leaves it, and the post-args contribution it returns
PreHook(meth, request_args, post_args) ==
    IF meth = "set_state"
    THEN [request_args |-> Put(request_args, "state", "h"),
          post_args |-> Put(post_args, "state_hook", "1"),
          _post_args |-> Put(post_args, "state_hook", "1")]
    ELSE [request_args |-> IF "scope" \in DOMAIN request_args THEN request_args
                           ELSE Put(request_args, "scope", "h"),
          post_args |-> post_args,
          _post_args |-> Put(EmptyDict, "scope_hook", "1")]

\* the loop of do_pre_construct over the hooks still to run
RECURSIVE PreConstructLoop(_, _, _, _)
PreConstructLoop(hooks, request_args, post_args, returned) ==
    IF hooks = <<>>
    THEN [request_args |-> request_args, post_args |-> post_args, returned |-> returned]
    ELSE LET r == PreHook(Head(hooks), request_args, post_args)
         IN PreConstructLoop(Tail(hooks), r.request_args, r.post_args,
                             Append(returned, r._post_args))

\* do_pre_construct as it would be with line 210 reading
\* post_args = _post_args: the last hook's returned contribution is handed on
do_pre_constructLastReturned(hooks, request_args) ==
    LET r == PreConstructLoop(hooks, request_args, EmptyDict, <<>>)
    IN IF hooks = <<>> THEN r
       ELSE [r EXCEPT !.post_args = r.returned[Len(r.returned)]]

\* Service.do_pre_construct(request_args, **kwargs): the contributions the
\* hooks return are bound to _post_args and dropped (the merge of line 210 is
\* commented out); post_args is the object created at line 204 as the hooks
\* left it
do_pre_construct(hooks, request_args) ==
    PreConstructLoop(hooks, request_args, EmptyDict, <<>>)

\* the post-construction hooks a service may carry
PostHooks == {"stamp"}

\* one post-construction hook, meth(request, service, **_args): the message
\* it returns, stamped with whether the message it was given already held
\* client credentials
PostHook(meth, request, _args) ==
    Put(request, "stamp", IF "client_secret" \in DOMAIN request THEN "late" ELSE "p")

\* Service.do_post_construct(request_args, **kwargs)
RECURSIVE do_post_construct(_, _, _)
do_post_construct(hooks, request, _args) ==
    IF hooks = <<>> THEN request
    ELSE do_post_construct(Tail(hooks), PostHook(Head(hooks), request, _args), _args)

\* lines 259-262 of construct with the state keyword written unconditionally
InjectStateAlways(c_param, request_args, kwargs) ==
    IF "state" \in DOMAIN kwargs THEN Put(request_args, "state", kwargs["state"])
    ELSE request_args

\* lines 259-262 of construct: the state keyword goes into the request args
\* when the schema declares state and the args do not hold one
InjectState(c_param, request_args, kwargs) ==
    IF "state" \in c_param /\ "state" \in DOMAIN kwargs
    THEN IF "state" \notin DOMAIN request_args
         THEN Put(request_args, "state", kwargs["state"])
         ELSE request_args
    ELSE request_args

\* Service.construct(request_args, **kwargs): every stage's value, the last
\* being the message handed back
construct(cf, dra, c_param, ctx, pre, post, request_args0, kwargs) ==
    LET request_args == IF request_args0 = NoneDict THEN EmptyDict ELSE request_args0
        p == do_pre_construct(pre, request_args)
        with_state == InjectState(c_param, p.request_args, kwargs)
        _args == gather_request_args(cf, dra, c_param, ctx, with_state)
        \* request = self.msg_type(**_args): the message holds the arguments
        request == _args
        post_args == IF "behaviour_args" \in DOMAIN kwargs
                        /\ kwargs["behaviour_args"] # EmptyDict
                     THEN Update(p.post_args, kwargs["behaviour_args"])
                     ELSE p.post_args
    IN [after_hooks |-> p.request_args,
        returned |-> p.returned,
        pre_post_args |-> p.post_args,
        with_state |-> with_state,
        _args |-> _args,
        post_args |-> post_args,
        request |-> do_post_construct(post, request, post_args)]

---------------------------------------------------------------------------
(* The service under construction of requests *)

\* the field names of the model: scope is declared by every request schema,
\* state by some
Fields == {"state", "scope"}
Schemas == {{"state", "scope"}, {"scope"}}

\* a service constructed from conf c, with request schema c_param, on the
\* shared context ctx; no hook is registered yet; given is the mapping c as
\* the caller held it before the call
InitService(c, c_param, ctx) ==
    LET s == Service__init__(c)
    IN /\ conf = s.conf
       /\ default_request_args = s.default_request_args
       /\ client_authn_methods = s.client_authn_methods
       /\ default_authn_method = s.default_authn_method
       /\ http_method = s.http_method
       /\ request_body_type = s.request_body_type
       /\ response_body_type = s.response_body_type
       /\ response_cls = s.response_cls
       /\ msg_type = c_param
       /\ pre_construct = <<>>
       /\ post_construct = <<>>
       /\ construct_extra_headers = <<>>
       /\ context = ctx
       /\ result = [op |-> "__init__", given |-> c]

\* the request_args a configuration may hold
ConfRequestArgs == Dicts(Fields, {"d"}) \cup {Put(EmptyDict, "scope", "")}

\* configurations that differ in their request_args
ConstructConfs == {EmptyDict} \cup {Put(EmptyDict, "request_args", d) : d \in ConfRequestArgs}

\* contexts that differ in what is negotiated and what is registered
ConstructContexts ==
    [usage : Dicts(Fields, {"u"}) \cup {Put(EmptyDict, "scope", "")},
     registered : {EmptyDict, Put(Put(EmptyDict, "scope", "g"), "state", "g")},
     client_authn_methods : {EmptyDict},
     issuer : {"https://op"},
     provider_info : {EmptyDict}]

InitConstruct ==
    \E c \in ConstructConfs, c_param \in Schemas, ctx \in ConstructContexts :
        InitService(c, c_param, ctx)

\* the service has handled no call yet
Bootstrapping == result.op = "__init__"

\* bootstrap: a pre-construction hook is appended
AddPreConstruct ==
    /\ Bootstrapping
    /\ Len(pre_construct) < MaxHooks
    /\ \E h \in PreHooks : pre_construct' = Append(pre_construct, h)
    /\ UNCHANGED <<svcVars, post_construct, construct_extra_headers, result>>

\* a call of gather_request_args(**kwargs)
GatherRequestArgs ==
    /\ \E kwargs \in Dicts(Fields, {"k", ""}) :
           result' = [op |-> "gather_request_args",
                      kwargs |-> kwargs,
                      ret |-> gather_request_args(conf, default_request_args, msg_type,
                                                  context, kwargs)]
    /\ UNCHANGED <<svcVars, hookVars>>

\* the keyword arguments of a call of construct
ConstructKwargs ==
    {EmptyDict, Put(EmptyDict, "state", "ks"),
     Put(EmptyDict, "behaviour_args", Put(EmptyDict, "b", "1")),
     Put(Put(EmptyDict, "state", "ks"), "behaviour_args", Put(EmptyDict, "b", "1"))}

\* a call of construct(request_args, **kwargs)
Construct ==
    /\ \E request_args \in {NoneDict} \cup Dicts(Fields, {"k"}), kwargs \in ConstructKwargs :
           result' = [op |-> "construct", request_args |-> request_args, kwargs |-> kwargs,
                      out |-> construct(conf, default_request_args, msg_type, context,
                                        pre_construct, post_construct, request_args, kwargs)]
    /\ UNCHANGED <<svcVars, hookVars>>

\* a second Service(conf=c) from the mapping the first was constructed from,
\* which is the object the first keeps as self.conf; the variables go on to
\* hold the second service, result keeps the first
SecondService__init__ ==
    /\ Bootstrapping
    /\ pre_construct = <<>>
    /\ LET s == Service__init__(conf)
       IN /\ conf' = s.conf
          /\ default_request_args' = s.default_request_args
          /\ client_authn_methods' = s.client_authn_methods
          /\ default_authn_method' = s.default_authn_method
          /\ http_method' = s.http_method
          /\ request_body_type' = s.request_body_type
          /\ response_body_type' = s.response_body_type
          /\ response_cls' = s.response_cls
    /\ result' = [op |-> "second __init__", given |-> result.given,
                  first |-> [conf |-> conf, default_request_args |-> default_request_args]]
    /\ UNCHANGED <<msg_type, context, hookVars>>

NextConstruct == AddPreConstruct \/ GatherRequestArgs \/ Construct \/ SecondService__init__

SpecConstruct == InitConstruct /\ [][NextConstruct]_vars

---------------------------------------------------------------------------
(* Properties of parameter resolution and construction *)

\* C3: whatever the configuration (request_args, defaults) and whatever the
\* context has negotiated or registered, a field the caller passes to
\* gather_request_args keeps exactly the caller's value in the resulting
\* parameter set; in construct the same holds of the parameters the
\* pre-construction hooks hand on, which are the caller's own when no hook
\* is registered.
C3_ExplicitValueWins ==
    /\ result.op = "gather_request_args" =>
           \A f \in DOMAIN result.kwargs :
               f \in DOMAIN result.ret /\ result.ret[f] = result.kwargs[f]
    /\ result.op = "construct" =>
           /\ \A f \in DOMAIN result.out.after_hooks :
                  /\ f \in DOMAIN result.out.request
                  /\ result.out.request[f] = result.out.after_hooks[f]
           /\ (pre_construct = <<>> /\ result.request_args # NoneDict) =>
                  \A f \in DOMAIN result.request_args :
                      /\ f \in DOMAIN result.out.request
                      /\ result.out.request[f] = result.request_args[f]

\* C3 witness: the caller passed scope while the configuration moved a
\* default for scope into the service and the context negotiated one too,
\* and the caller's value is the one in the result.
C3_Witness ==
    /\ result.op = "gather_request_args"
    /\ "scope" \in DOMAIN result.kwargs
    /\ result.kwargs["scope"] = "k"
    /\ Get(default_request_args, "scope") = "d"
    /\ Get(context.usage, "scope") = "u"
    /\ result.ret["scope"] = "k"

\* the value the sources hold for field f, in the order: configured
\* request_args, negotiated (or, when nothing is negotiated, registered)
\* value, per-service default; None when no source holds one
FirstSource(f) ==
    LET used == IF context.usage # EmptyDict THEN context.usage ELSE context.registered
    IN IF "request_args" \in DOMAIN conf /\ f \in DOMAIN conf["request_args"]
       THEN conf["request_args"][f]
       ELSE IF f \in DOMAIN used /\ used[f] # ""
       THEN used[f]
       ELSE IF f \in DOMAIN default_request_args
       THEN default_request_args[f]
       ELSE None

C10_StateInjection ==
    result.op = "construct" =>
        LET declared == "state" \in msg_type
            supplied == "state" \in DOMAIN result.kwargs
            present == "state" \in DOMAIN result.out.after_hooks
            injected == Get(result.out.request, "state") = "ks"
        IN /\ injected <=> (supplied /\ declared /\ ~present)
           /\ present => result.out.request["state"] = result.out.after_hooks["state"]

\* C10 witness: the caller supplied the state keyword, the schema declares
\* state, a hook had already put a state into the parameters, and the hook's
\* state is the one in the message.
C10_Witness ==
    /\ result.op = "construct"
    /\ "state" \in msg_type
    /\ "state" \in DOMAIN result.kwargs
    /\ result.request_args = EmptyDict
    /\ Get(result.out.after_hooks, "state") = "h"
    /\ result.out.request["state"] = "h"

\* C10 second case, reached as well: the keyword is injected.
C10_InjectedReached ==
    /\ result.op = "construct"
    /\ "state" \in DOMAIN result.kwargs
    /\ Get(result.out.request, "state") = "ks"

\* C11 as stated: after a chain of one or more pre-construction hooks the
\* post-construction arguments do_pre_construct hands on are the contribution
\* the last hook returned.
C11_LastContributionHandedOn ==
    (result.op = "construct" /\ pre_construct # <<>>) =>
        result.out.pre_post_args = result.out.returned[Len(result.out.returned)]

\* C11: after a chain of one or more pre-construction hooks the
\* post-construction arguments do_pre_construct hands on are the accumulator
\* it created and passed to every hook, holding what the hooks of the whole
\* chain wrote into it in place (set_state's entry when set_state is anywhere
\* in the chain); what the hooks return as their contribution is dropped, the
\* last hook's too (add_scope's returned entry never shows).
C11_AccumulatorHandedOn ==
    (result.op = "construct" /\ pre_construct # <<>>) =>
        /\ Len(result.out.returned) = Len(pre_construct)
        /\ "state_hook" \in DOMAIN result.out.pre_post_args
               <=> \E i \in 1..Len(pre_construct) : pre_construct[i] = "set_state"
        /\ "scope_hook" \notin DOMAIN result.out.pre_post_args
        /\ DOMAIN result.out.pre_post_args \subseteq {"state_hook"}

\* C11 witness: set_state ran first and wrote into the accumulator, add_scope
\* ran last and returned a contribution of its own; the arguments handed on
\* hold the first hook's entry and not the last hook's contribution.
C11_Witness ==
    /\ result.op = "construct"
    /\ pre_construct = <<"set_state", "add_scope">>
    /\ result.out.returned[2] = Put(EmptyDict, "scope_hook", "1")
    /\ result.out.pre_post_args = Put(EmptyDict, "state_hook", "1")

\* C15: constructing a Service leaves the mapping it is given unchanged:
\* after the first Service(conf=c) the mapping is as the caller gave it, and
\* a second Service constructed from it has the default_request_args of the
\* first and resolves the request parameters as the first does.
C15_ConfUnchanged ==
    result.op = "second __init__" =>
        /\ result.first.conf = result.given
        /\ default_request_args = result.first.default_request_args
        /\ gather_request_args(conf, default_request_args, msg_type, context, EmptyDict)
              = gather_request_args(result.first.conf, result.first.default_request_args,
                                    msg_type, context, EmptyDict)

---------------------------------------------------------------------------
(* Client authentication *)

\* the authentication method identifiers of the model; no registry ever
\* holds private_key_jwt
AuthnMethods == {"client_secret_post", "bearer_header", "private_key_jwt"}

\* _func.construct(request, service, http_args, **kwargs) of a registered
\* strategy: client_secret_post writes into the request, bearer_header
\* returns http_args with an Authorization header; the values written name
\* the registry the strategy came from
StrategyConstruct(_func, request, http_args) ==
    IF _func.id = "client_secret_post"
    THEN [request |-> Put(request, "client_secret", _func.scope),
          ret |-> http_args]
    ELSE [request |-> request,
          ret |-> Put(http_args, "headers",
                      Put(IF "headers" \in DOMAIN http_args THEN http_args["headers"]
                          ELSE EmptyDict,
                          "Authorization", <<"Bearer", _func.scope>>))]

\* the outcome of a call that raised exception exc
Raised(exc, about, request) ==
    [raised |-> exc, about |-> about, invoked |-> <<>>, request |-> request,
     ret |-> EmptyDict]

\* init_authentication_method with the entity-wide registry looked up first
init_authentication_methodEntityFirst(cam, ctx, request, authn_method, http_args0) ==
    LET http_args == IF http_args0 = NoneDict THEN EmptyDict ELSE http_args0
    IN IF authn_method # ""
       THEN IF authn_method \in DOMAIN ctx.client_authn_methods
               \/ authn_method \in DOMAIN cam
            THEN LET _func == IF authn_method \in DOMAIN ctx.client_authn_methods
                              THEN ctx.client_authn_methods[authn_method]
                              ELSE cam[authn_method]
                     r == StrategyConstruct(_func, request, http_args)
                 IN [raised |-> "", about |-> "", invoked |-> <<_func>>,
                     request |-> r.request, ret |-> r.ret]
            ELSE Raised("Unsupported", authn_method, request)
       ELSE [raised |-> "", about |-> "", invoked |-> <<>>, request |-> request,
             ret |-> http_args]

\* Service.init_authentication_method(request, authn_method, http_args):
\* what is raised (and about which identifier), the strategies invoked, the
\* request as the strategy leaves it, and the value returned
init_authentication_method(cam, ctx, request, authn_method, http_args0) ==
    LET http_args == IF http_args0 = NoneDict THEN EmptyDict ELSE http_args0
    IN IF authn_method # ""
       THEN IF cam # EmptyDict /\ authn_method \in DOMAIN cam
            THEN LET r == StrategyConstruct(cam[authn_method], request, http_args)
                 IN [raised |-> "", about |-> "", invoked |-> <<cam[authn_method]>>,
                     request |-> r.request, ret |-> r.ret]
            ELSE IF authn_method \in DOMAIN ctx.client_authn_methods
            THEN LET _func == ctx.client_authn_methods[authn_method]
                     r == StrategyConstruct(_func, request, http_args)
                 IN [raised |-> "", about |-> "", invoked |-> <<_func>>,
                     request |-> r.request, ret |-> r.ret]
            ELSE Raised("Unsupported", authn_method, request)
       ELSE [raised |-> "", about |-> "", invoked |-> <<>>, request |-> request,
             ret |-> http_args]

\* Service.get_authn_header(request, authn_method, **kwargs): the headers of
\* what init_authentication_method returns, {} when it returns none
get_authn_header(cam, ctx, request, authn_method) ==
    IF authn_method # ""
    THEN LET h_arg == init_authentication_method(cam, ctx, request, authn_method, NoneDict)
         IN [raised |-> h_arg.raised, about |-> h_arg.about, invoked |-> h_arg.invoked,
             request |-> h_arg.request,
             ret |-> IF h_arg.raised = "" /\ "headers" \in DOMAIN h_arg.ret
                     THEN h_arg.ret["headers"] ELSE EmptyDict]
    ELSE [raised |-> "", about |-> "", invoked |-> <<>>, request |-> request,
          ret |-> EmptyDict]

\* the extra-header hooks a service may carry
ExtraHeaderHooks == {"trace_a", "trace_b"}

\* one extra-header hook, meth(context, headers, request, authn_method, ...):
\* the headers it returns, with an entry appended to the X-Trace header that
\* holds its own name and what it was given: whether the headers held an
\* Authorization header and the request client credentials
ExtraHeaderHook(meth, headers, request) ==
    Put(headers, "X-Trace",
        Append(IF "X-Trace" \in DOMAIN headers THEN headers["X-Trace"] ELSE <<>>,
               [hook |-> meth,
                authorized |-> "Authorization" \in DOMAIN headers,
                credentials |-> "client_secret" \in DOMAIN request]))

\* the loop of get_headers over the extra-header hooks
RECURSIVE ExtraHeadersLoop(_, _, _)
ExtraHeadersLoop(hooks, _headers, request) ==
    IF hooks = <<>> THEN _headers
    ELSE ExtraHeadersLoop(Tail(hooks), ExtraHeaderHook(Head(hooks), _headers, request),
                          request)

\* Service.get_headers(request, http_method, authn_method, **kwargs)
get_headers(cam, dam, ctx, extra, request, authn_method0) ==
    LET authn_method == IF authn_method0 = "" THEN dam ELSE authn_method0
        a == get_authn_header(cam, ctx, request, authn_method)
    IN IF a.raised # "" THEN a
       ELSE [a EXCEPT !.ret = ExtraHeadersLoop(extra, a.ret, a.request)]

---------------------------------------------------------------------------
(* Request serialization *)

\* the content types of idpyoidc.constant
URL_ENCODED == "application/x-www-form-urlencoded"
JSON_ENCODED == "application/json"
JOSE_ENCODED == "application/jose"

\* util.get_http_url(url, req, method): the request travels in the query of
\* GET and DELETE requests when it holds anything
get_http_url(endpoint_url, request, method) ==
    IF method \in {"GET", "DELETE"} /\ request # EmptyDict
    THEN [endpoint |-> endpoint_url, query |-> request]
    ELSE [endpoint |-> endpoint_url, query |-> EmptyDict]

\* util.get_http_body(req, content_type): the request in the encoding the
\* content type names
get_http_body(request, content_type) == [encoding |-> content_type, of |-> request]

\* lines 462-467 of get_request_parameters with the JOSE body types taken
\* for JSON
ContentTypeOfNoJose(body_type) ==
    IF body_type = "urlencoded" THEN URL_ENCODED ELSE JSON_ENCODED

\* lines 462-467 of get_request_parameters: the content type of a body type
ContentTypeOf(body_type) ==
    IF body_type = "urlencoded" THEN URL_ENCODED
    ELSE IF body_type \in {"jws", "jwe", "jose"} THEN JOSE_ENCODED
    ELSE JSON_ENCODED

\* Service.get_endpoint(): the endpoint of the provider's metadata; None
\* stands for the KeyError of an endpoint the metadata lacks
get_endpoint(ctx) == Get(ctx.provider_info, "endpoint")

\* the service a method is called on
Self ==
    [conf |-> conf, default_request_args |-> default_request_args,
     client_authn_methods |-> client_authn_methods,
     default_authn_method |-> default_authn_method, http_method |-> http_method,
     request_body_type |-> request_body_type, msg_type |-> msg_type,
     pre_construct |-> pre_construct, post_construct |-> post_construct,
     construct_extra_headers |-> construct_extra_headers, context |-> context]

\* get_request_parameters with the URL and the body serialized from the
\* message as construct returned it, before get_headers (line 449) has run
get_request_parametersSerializesFirst(self, request_args, method0, body_type0, authn_method0, kwargs) ==
    LET ctx == self.context
        method == IF method0 = "" THEN self.http_method ELSE method0
        authn_method == IF authn_method0 = "" THEN self.default_authn_method
                        ELSE authn_method0
        body_type == IF body_type0 = "" THEN self.request_body_type ELSE body_type0
        c == construct(self.conf, self.default_request_args, self.msg_type, ctx,
                       self.pre_construct, self.post_construct, request_args, kwargs)
        h == get_headers(self.client_authn_methods, self.default_authn_method, ctx,
                         self.construct_extra_headers, c.request, authn_method)
        request == c.request
        endpoint_url == IF "endpoint" \in DOMAIN kwargs THEN kwargs["endpoint"]
                        ELSE get_endpoint(ctx)
        content_type == ContentTypeOf(body_type)
        _headers == IF method = "POST" THEN Put(h.ret, "Content-Type", content_type)
                    ELSE h.ret
        base == [method |-> method, request |-> request,
                 url |-> get_http_url(endpoint_url, request, method)]
        with_body == IF method = "POST"
                     THEN Put(base, "body", get_http_body(request, content_type))
                     ELSE base
        _info == IF _headers # EmptyDict THEN Put(with_body, "headers", _headers)
                 ELSE with_body
    IN IF h.raised # ""
       THEN [raised |-> h.raised, about |-> h.about, method |-> method,
             body_type |-> body_type, constructed |-> c.request, invoked |-> h.invoked,
             authn_headers |-> EmptyDict, _info |-> EmptyDict]
       ELSE IF endpoint_url = None
       THEN [raised |-> "KeyError", about |-> "endpoint", method |-> method,
             body_type |-> body_type, constructed |-> c.request, invoked |-> h.invoked,
             authn_headers |-> h.ret, _info |-> EmptyDict]
       ELSE [raised |-> "", about |-> "", method |-> method,
             body_type |-> body_type, constructed |-> c.request, invoked |-> h.invoked,
             authn_headers |-> h.ret, _info |-> _info]

\* Service.get_request_parameters(request_args, method, request_body_type,
\* authn_method, **kwargs): what is raised, or the _info returned, with the
\* stages' values that led to it
get_request_parameters(self, request_args, method0, body_type0, authn_method0, kwargs) ==
    LET ctx == self.context
        method == IF method0 = "" THEN self.http_method ELSE method0
        authn_method == IF authn_method0 = "" THEN self.default_authn_method
                        ELSE authn_method0
        body_type == IF body_type0 = "" THEN self.request_body_type ELSE body_type0
        c == construct(self.conf, self.default_request_args, self.msg_type, ctx,
                       self.pre_construct, self.post_construct, request_args, kwargs)
        h == get_headers(self.client_authn_methods, self.default_authn_method, ctx,
                         self.construct_extra_headers, c.request, authn_method)
        \* the strategy works on the request object itself
        request == h.request
        endpoint_url == IF "endpoint" \in DOMAIN kwargs THEN kwargs["endpoint"]
                        ELSE get_endpoint(ctx)
        content_type == ContentTypeOf(body_type)
        _headers == IF method = "POST" THEN Put(h.ret, "Content-Type", content_type)
                    ELSE h.ret
        base == [method |-> method, request |-> request,
                 url |-> get_http_url(endpoint_url, request, method)]
        with_body == IF method = "POST"
                     THEN Put(base, "body", get_http_body(request, content_type))
                     ELSE base
        _info == IF _headers # EmptyDict THEN Put(with_body, "headers", _headers)
                 ELSE with_body
    IN IF h.raised # ""
       THEN [raised |-> h.raised, about |-> h.about, method |-> method,
             body_type |-> body_type, constructed |-> c.request, invoked |-> h.invoked,
             authn_headers |-> EmptyDict, _info |-> EmptyDict]
       ELSE IF endpoint_url = None
       THEN [raised |-> "KeyError", about |-> "endpoint", method |-> method,
             body_type |-> body_type, constructed |-> c.request, invoked |-> h.invoked,
             authn_headers |-> h.ret, _info |-> EmptyDict]
       ELSE [raised |-> "", about |-> "", method |-> method,
             body_type |-> body_type, constructed |-> c.request, invoked |-> h.invoked,
             authn_headers |-> h.ret, _info |-> _info]

---------------------------------------------------------------------------
(* The service under authentication and serialization of requests *)

\* configurations that differ in the registry, the default authentication
\* method, and the HTTP method with its body type
RequestConfs ==
    {Update(Update(a, b), c) :
        a \in {EmptyDict, Put(EmptyDict, "client_authn_methods", {"client_secret_post"})},
        b \in {EmptyDict, Put(EmptyDict, "default_authn_method", "bearer_header")},
        c \in {EmptyDict,
               Put(Put(EmptyDict, "http_method", "POST"), "request_body_type", "jws")}}

\* the entity-wide registry with every strategy of the entity
EntityRegistry ==
    [m \in {"client_secret_post", "bearer_header"} |-> Strategy("entity", m)]

\* contexts that differ in the entity-wide registry and the metadata
RequestContexts ==
    [usage : {EmptyDict},
     registered : {EmptyDict},
     client_authn_methods : {EmptyDict, EntityRegistry},
     issuer : {"https://op"},
     provider_info : {Put(EmptyDict, "endpoint", "https://op/endpoint")}]

InitRequest ==
    \E c \in RequestConfs, ctx \in RequestContexts :
        InitService(c, {"state", "scope"}, ctx)

\* bootstrap: an extra-header hook is appended
AddExtraHeaders ==
    /\ Bootstrapping
    /\ Len(construct_extra_headers) < MaxHooks
    /\ \E h \in ExtraHeaderHooks :
           construct_extra_headers' = Append(construct_extra_headers, h)
    /\ UNCHANGED <<svcVars, pre_construct, post_construct, result>>

\* a call of init_authentication_method(request, authn_method, http_args)
InitAuthenticationMethod ==
    /\ \E authn_method \in {""} \cup AuthnMethods,
          http_args \in {NoneDict, EmptyDict,
                         Put(EmptyDict, "headers", Put(EmptyDict, "Accept", "*"))} :
           result' = [op |-> "init_authentication_method",
                      authn_method |-> authn_method,
                      http_args |-> http_args,
                      out |-> init_authentication_method(
                                  client_authn_methods, context,
                                  Put(EmptyDict, "scope", "k"), authn_method, http_args)]
    /\ UNCHANGED <<svcVars, hookVars>>

\* the body types a caller may name: the three JOSE ones, the two others
\* the code names, and one it does not know
BodyTypes == {"urlencoded", "json", "jws", "jwe", "jose", "xml"}

\* a call of get_request_parameters(request_args, method, request_body_type,
\* authn_method)
GetRequestParameters ==
    /\ \E method \in {"", "GET", "POST"}, body_type \in {""} \cup BodyTypes,
          authn_method \in {"", "client_secret_post", "private_key_jwt"} :
           result' = [op |-> "get_request_parameters",
                      method |-> method,
                      request_body_type |-> body_type,
                      authn_method |-> authn_method,
                      out |-> get_request_parameters(
                                  Self, Put(EmptyDict, "scope", "k"), method, body_type,
                                  authn_method, EmptyDict)]
    /\ UNCHANGED <<svcVars, hookVars>>

NextRequest == AddExtraHeaders \/ InitAuthenticationMethod \/ GetRequestParameters

SpecRequest == InitRequest /\ [][NextRequest]_vars

---------------------------------------------------------------------------
(* Properties of authentication and serialization *)

\* C5: init_authentication_method with a method identifier X invokes the
\* service-local strategy for X when the service has one (also when the
\* entity has one too), the entity-wide strategy when only the entity has
\* one, and raises Unsupported naming X, invoking nothing, when neither has;
\* with no identifier it invokes nothing and returns the http_args it was
\* given ({} when none were given).
C5_AuthnResolution ==
    result.op = "init_authentication_method" =>
        LET X == result.authn_method
            local == X \in DOMAIN client_authn_methods
            entity == X \in DOMAIN context.client_authn_methods
            out == result.out
        IN /\ (X # "" /\ local) =>
                 out.raised = "" /\ out.invoked = <<[scope |-> "service", id |-> X]>>
           /\ (X # "" /\ ~local /\ entity) =>
                 out.raised = "" /\ out.invoked = <<[scope |-> "entity", id |-> X]>>
           /\ (X # "" /\ ~local /\ ~entity) =>
                 out.raised = "Unsupported" /\ out.about = X /\ out.invoked = <<>>
           /\ X = "" =>
                 /\ out.raised = "" /\ out.invoked = <<>>
                 /\ out.ret = IF result.http_args = NoneDict THEN EmptyDict
                              ELSE result.http_args

\* C5 witness: client_secret_post is registered on the service and on the
\* entity, and the call ran the service's strategy.
C5_Witness ==
    /\ result.op = "init_authentication_method"
    /\ result.authn_method = "client_secret_post"
    /\ "client_secret_post" \in DOMAIN client_authn_methods
    /\ "client_secret_post" \in DOMAIN context.client_authn_methods
    /\ result.out.invoked = <<[scope |-> "service", id |-> "client_secret_post"]>>
    /\ result.out.request["client_secret"] = "service"

\* C5 second case, reached as well: an identifier no registry holds.
C5_UnsupportedReached ==
    /\ result.op = "init_authentication_method"
    /\ result.out.raised = "Unsupported"
    /\ result.out.about = "private_key_jwt"

\* C6: in what get_request_parameters returns, a POST carries a body and the
\* Content-Type the body type selects -- the form type for urlencoded, the
\* JOSE type for jws, jwe and jose, the JSON type for anything else -- and
\* any other method carries no body and the headers as authentication and
\* the extra-header hooks left them.
C6_BodyEncoding ==
    (result.op = "get_request_parameters" /\ result.out.raised = "") =>
        LET method == IF result.method = "" THEN http_method ELSE result.method
            body_type == IF result.request_body_type = "" THEN request_body_type
                         ELSE result.request_body_type
            expected == CASE body_type = "urlencoded" -> URL_ENCODED
                          [] body_type \in {"jws", "jwe", "jose"} -> JOSE_ENCODED
                          [] OTHER -> JSON_ENCODED
            _info == result.out._info
        IN IF method = "POST"
           THEN /\ "body" \in DOMAIN _info
                /\ _info["body"].encoding = expected
                /\ _info["headers"]["Content-Type"] = expected
           ELSE /\ "body" \notin DOMAIN _info
                /\ IF "headers" \in DOMAIN _info
                   THEN /\ "Content-Type" \notin DOMAIN _info["headers"]
                        /\ _info["headers"] = result.out.authn_headers
                   ELSE result.out.authn_headers = EmptyDict

\* C6 witness: a POST whose body type jose comes from the call, on a service
\* whose own body type is another, returned with the JOSE content type.
C6_Witness ==
    /\ result.op = "get_request_parameters"
    /\ result.out.raised = ""
    /\ result.out.method = "POST"
    /\ result.request_body_type = "jose"
    /\ request_body_type = "urlencoded"
    /\ result.out._info["headers"]["Content-Type"] = JOSE_ENCODED
    /\ "body" \in DOMAIN result.out._info

\* C6 second case, reached as well: a GET returned without a body.
C6_NoBodyReached ==
    /\ result.op = "get_request_parameters"
    /\ result.out.raised = ""
    /\ result.out.method = "GET"
    /\ "body" \notin DOMAIN result.out._info

---------------------------------------------------------------------------
(* The service under the whole outbound pipeline *)

\* configurations with a service-local client_secret_post that differ in the
\* default authentication method
PipelineConfs ==
    {Update(Put(EmptyDict, "client_authn_methods", {"client_secret_post"}), b) :
        b \in {EmptyDict, Put(EmptyDict, "default_authn_method", "bearer_header")}}

InitPipeline ==
    \E c \in PipelineConfs :
        InitService(c, {"state", "scope"},
                    [usage |-> EmptyDict, registered |-> EmptyDict,
                     client_authn_methods |-> EntityRegistry, issuer |-> "https://op",
                     provider_info |-> Put(EmptyDict, "endpoint", "https://op/endpoint")])

\* bootstrap: a post-construction hook is appended
AddPostConstruct ==
    /\ Bootstrapping
    /\ Len(post_construct) < MaxHooks
    /\ \E h \in PostHooks : post_construct' = Append(post_construct, h)
    /\ UNCHANGED <<svcVars, pre_construct, construct_extra_headers, result>>

NextPipeline == AddPostConstruct \/ AddExtraHeaders \/ GetRequestParameters

SpecPipeline == InitPipeline /\ [][NextPipeline]_vars

\* the strategy a call of get_request_parameters invoked is the one with
\* identifier id
InvokedStrategy(id) == result.out.invoked # <<>> /\ result.out.invoked[1].id = id

\* C14: in a call of get_request_parameters that returns, the message the
\* authentication strategy is given is the one construct returned, post
\* hooks applied (they saw a message without client credentials); every
\* extra-header hook is given the headers and the message as the strategy
\* left them, the hooks run in registration order and each is given the
\* headers of the one before; the URL and the body are serialized from the
\* message as the strategy left it.
C14_StageOrder ==
    (result.op = "get_request_parameters" /\ result.out.raised = "") =>
        LET out == result.out
            _info == out._info
            hooks == construct_extra_headers
            c == construct(conf, default_request_args, msg_type, context, pre_construct,
                           post_construct, Put(EmptyDict, "scope", "k"), EmptyDict)
        IN \* construction, then the strategy
           /\ out.constructed = c.request
           /\ Get(out.constructed, "stamp") = IF post_construct = <<>> THEN None ELSE "p"
           /\ _info["request"] =
                  IF out.invoked = <<>> THEN out.constructed
                  ELSE StrategyConstruct(out.invoked[1], out.constructed, EmptyDict).request
           \* the strategy, then the extra-header hooks, in order
           /\ InvokedStrategy("bearer_header") => "Authorization" \in DOMAIN out.authn_headers
           /\ IF hooks = <<>> THEN "X-Trace" \notin DOMAIN out.authn_headers
              ELSE out.authn_headers["X-Trace"] =
                       [i \in 1..Len(hooks) |->
                           [hook |-> hooks[i],
                            authorized |-> InvokedStrategy("bearer_header"),
                            credentials |-> InvokedStrategy("client_secret_post")]]
           \* serialization last
           /\ _info["url"].query = IF out.method = "GET" THEN _info["request"] ELSE EmptyDict
           /\ out.method = "POST" => _info["body"].of = _info["request"]
           /\ InvokedStrategy("client_secret_post") =>
                  IF out.method = "POST"
                  THEN "client_secret" \in DOMAIN _info["body"].of
                  ELSE "client_secret" \in DOMAIN _info["url"].query
           /\ hooks # <<>> => _info["headers"]["X-Trace"] = out.authn_headers["X-Trace"]

\* C14 witness: a post hook and two extra-header hooks are registered and
\* the call names client_secret_post: the body holds the post hook's stamp
\* and the secret the strategy wrote, and both extra-header hooks, in their
\* order, were given the message with the secret.
C14_Witness ==
    /\ result.op = "get_request_parameters"
    /\ result.out.raised = ""
    /\ result.authn_method = "client_secret_post"
    /\ result.out.method = "POST"
    /\ post_construct = <<"stamp">>
    /\ construct_extra_headers = <<"trace_b", "trace_a">>
    /\ result.out._info["body"].of =
           [scope |-> "k", stamp |-> "p", client_secret |-> "service"]
    /\ result.out._info["headers"]["X-Trace"] =
           <<[hook |-> "trace_b", authorized |-> FALSE, credentials |-> TRUE],
             [hook |-> "trace_a", authorized |-> FALSE, credentials |-> TRUE]>>

\* C14, further case reached: the default method bearer_header returned an
\* Authorization header and the extra-header hook was given it; the message
\* travels unchanged in the URL.
C14_BearerReached ==
    /\ result.op = "get_request_parameters"
    /\ result.out.raised = ""
    /\ result.out.method = "GET"
    /\ InvokedStrategy("bearer_header")
    /\ construct_extra_headers = <<"trace_a">>
    /\ result.out._info["headers"]["X-Trace"] =
           <<[hook |-> "trace_a", authorized |-> TRUE, credentials |-> FALSE]>>
    /\ result.out._info["url"].query = result.out.constructed

---------------------------------------------------------------------------
(* Responses: payloads and the external decoders *)

\* what a payload decodes to: a response the schema accepts (whose verify
\* passes, misses the signing key or fails otherwise), an error-shaped
\* message (whose verify would pass or fail), data the schema rejects, an
\* empty object, or an empty list
Contents ==
    [shape : {"response"}, verify : {"ok", "MissingSigningKey", "VerificationError"}]
    \cup [shape : {"error"}, verify : {"ok", "VerificationError"}]
    \cup [shape : {"unfit", "empty", "list0"}, verify : {"ok"}]

\* the payloads of the model: a string of some kind -- empty, JSON text, a
\* compact signed token, a compact encrypted token, a form-encoded string,
\* anything else --, for a form-encoded string whether it is the query or the
\* fragment of a URL, and what the JOSE library makes of the string: whether
\* jws_factory and jwe_factory recognise it ("yes"), do not ("no") or raise,
\* whether unpacking it succeeds, and what it decodes to
Payloads ==
    [kind : {"empty"}, jws_probe : {"no"}, jwe_probe : {"no"}, unpack_ok : {FALSE},
     wrap : {"plain"}, content : {[shape |-> "empty", verify |-> "ok"]}]
    \cup [kind : {"garbage"}, jws_probe : {"no", "raise"}, jwe_probe : {"no"},
          unpack_ok : {FALSE}, wrap : {"plain"}, content : {[shape |-> "unfit", verify |-> "ok"]}]
    \cup [kind : {"json"}, jws_probe : {"no", "raise"}, jwe_probe : {"no"},
          unpack_ok : {FALSE}, wrap : {"plain"}, content : Contents]
    \cup [kind : {"form"}, jws_probe : {"no"}, jwe_probe : {"no"},
          unpack_ok : {FALSE}, wrap : {"plain", "query", "fragment"},
          content : {c \in Contents : c.shape \in {"response", "error"}}]
    \cup [kind : {"jws"}, jws_probe : {"yes"}, jwe_probe : {"no", "raise"},
          unpack_ok : {TRUE}, wrap : {"plain"}, content : Contents]
    \cup [kind : {"jws"}, jws_probe : {"yes"}, jwe_probe : {"no", "raise"},
          unpack_ok : {FALSE}, wrap : {"plain"}, content : {[shape |-> "unfit", verify |-> "ok"]}]
    \cup [kind : {"jwe"}, jws_probe : {"no", "raise"}, jwe_probe : {"yes"},
          unpack_ok : {TRUE}, wrap : {"plain"}, content : Contents]
    \cup [kind : {"jwe"}, jws_probe : {"no", "raise"}, jwe_probe : {"yes"},
          unpack_ok : {FALSE}, wrap : {"plain"}, content : {[shape |-> "unfit", verify |-> "ok"]}]

\* values of info: the string as received, or the object decoded from it
Raw(p) == [t |-> "raw", p |-> p]
Obj(c) == [t |-> "obj", c |-> c]

\* None where a raw token string is expected
NoToken == [t |-> "none"]

\* a message of the response class holding content c
Message(c) == [t |-> "msg", c |-> c, _jws |-> NoToken, _jwe |-> NoToken]

\* Python truthiness of info or of a response: the empty string, the empty
\* object, the empty list and the message without fields are falsy
Falsy(x) ==
    \/ x.t = "none"
    \/ x.t = "raw" /\ x.p.kind = "empty"
    \/ x.t \in {"obj", "msg"} /\ x.c.shape \in {"empty", "list0"}

\* json.loads(info): the object a JSON text holds; JSONDecodeError for any
\* other string, the empty one included
json_loads(info) ==
    IF info.t = "raw" /\ info.p.kind = "json"
    THEN [raised |-> "", v |-> Obj(info.p.content)]
    ELSE [raised |-> "JSONDecodeError", v |-> info]

\* Service._do_jwt(info): JWT(...).unpack(info), the claims of a token that
\* unpacks (verified, and decrypted first when encrypted)
_do_jwt(info) ==
    IF info.t = "raw" /\ info.p.kind \in {"jws", "jwe"} /\ info.p.unpack_ok
    THEN [raised |-> "", v |-> Obj(info.p.content)]
    ELSE [raised |-> "JWTUnpackError", v |-> info]

\* response_cls().from_jwe(info, keys): the message an encrypted token
\* decrypts to
from_jwe(info) ==
    IF info.p.kind = "jwe" /\ info.p.unpack_ok /\ info.p.content.shape # "unfit"
    THEN [raised |-> "", v |-> Message(info.p.content)]
    ELSE [raised |-> "JWEDecryptError", v |-> NoToken]

\* response_cls().deserialize(info, sformat, ...): the message info holds
\* in the named format
deserialize(info, sformat) ==
    LET fits(c) == c.shape \in {"response", "error", "empty"}
        ok == CASE sformat = "dict" -> info.t = "obj" /\ fits(info.c)
                [] sformat = "json" -> info.t = "raw" /\ info.p.kind = "json"
                                       /\ fits(info.p.content)
                [] sformat = "urlencoded" -> info.t = "raw" /\ info.p.kind = "form"
                                             /\ info.p.wrap = "plain"
                                             /\ fits(info.p.content)
                [] sformat = "jwt" -> info.t = "raw" /\ info.p.kind \in {"jws", "jwe"}
                                      /\ info.p.unpack_ok /\ fits(info.p.content)
                [] OTHER -> FALSE
    IN IF ok
       THEN [raised |-> "", v |-> Message(IF info.t = "obj" THEN info.c ELSE info.p.content)]
       ELSE [raised |-> "DeserializationError", v |-> NoToken]

\* Service.get_urlinfo(info): the query or else the fragment of a URL, any
\* other string as it is
get_urlinfo(info) ==
    IF info.p.wrap \in {"query", "fragment"}
    THEN Raw([info.p EXCEPT !.wrap = "plain"])
    ELSE info

---------------------------------------------------------------------------
(* Response parsing *)

\* the state of parse_response after its format dispatch
Decoded(raised, info, sformat, resp, _jws, _jwe, trace) ==
    [raised |-> raised, info |-> info, sformat |-> sformat, resp |-> resp,
     _jws |-> _jws, _jwe |-> _jwe, trace |-> trace]

\* lines 603-617 with a token that jws_factory recognises left as the string
\* it is
DecodeJoseNoUnpack(info) ==
    LET j == json_loads(info)
    IN IF ~Falsy(info)
       THEN Decoded(j.raised, j.v, "dict", NoToken, info, NoToken,
                    <<"jws_factory", "json.loads">>)
       ELSE Decoded("", info, "dict", NoToken, info, NoToken, <<"jws_factory">>)

\* lines 603-617 of parse_response, sformat == "jose": the JWS probe, the
\* JWE probe when the first try block raised, json.loads of what is still a
\* string
DecodeJose(info) ==
    LET u == _do_jwt(info)
        \* try: if jws_factory(info): info = self._do_jwt(info)
        first == IF info.p.jws_probe = "yes"
                 THEN [raised |-> u.raised # "", v |-> u.v,
                       trace |-> <<"jws_factory", "_do_jwt">>]
                 ELSE [raised |-> info.p.jws_probe = "raise", v |-> info,
                       trace |-> <<"jws_factory">>]
        \* except: try: if jwe_factory(info): info = self._do_jwt(info)
        \*         except: pass
        second == IF ~first.raised THEN first
                  ELSE IF info.p.jwe_probe = "yes"
                  THEN [raised |-> FALSE, v |-> u.v,
                        trace |-> first.trace \o <<"jwe_factory", "_do_jwt">>]
                  ELSE [raised |-> FALSE, v |-> info,
                        trace |-> first.trace \o <<"jwe_factory">>]
        \* if info and isinstance(info, str): info = json.loads(info)
        j == json_loads(second.v)
    IN IF ~Falsy(second.v) /\ second.v.t = "raw"
       THEN Decoded(j.raised, j.v, "dict", NoToken, info, NoToken,
                    second.trace \o <<"json.loads">>)
       ELSE Decoded("", second.v, "dict", NoToken, info, NoToken, second.trace)

\* lines 627-630 of parse_response, sformat in ["jwt", "jws"]
DecodeJwt(info) ==
    LET u == _do_jwt(info)
    IN Decoded(u.raised, u.v, "dict", NoToken, info, NoToken, <<"_do_jwt">>)

\* lines 601-633 of parse_response: the dispatch on the declared format
Decode(info, sformat) ==
    CASE sformat = "jose" -> DecodeJose(info)
      [] sformat = "jwe" ->
            LET r == from_jwe(info)
            IN Decoded(r.raised, info, sformat, r.v, NoToken, info, <<"from_jwe">>)
      [] sformat = "urlencoded" ->
            Decoded("", get_urlinfo(info), sformat, NoToken, NoToken, NoToken,
                    <<"get_urlinfo">>)
      [] sformat \in {"jwt", "jws"} -> DecodeJwt(info)
      [] sformat = "json" ->
            LET j == json_loads(info)
            IN Decoded(j.raised, j.v, "dict", NoToken, NoToken, NoToken, <<"json.loads">>)
      [] OTHER -> Decoded("", info, sformat, NoToken, NoToken, NoToken, <<>>)

\* Service._do_response(info, sformat): deserialization into the response
\* class, retried as a token when the format is json
_do_response(info, sformat) ==
    LET first == deserialize(info, sformat)
        retry == deserialize(info, "jwt")
    IN IF info.t = "obj" /\ info.c.shape = "list0"
       THEN [raised |-> "", v |-> info, trace |-> <<>>]
       ELSE IF first.raised = ""
       THEN [raised |-> "", v |-> first.v, trace |-> <<"deserialize">>]
       ELSE IF sformat = "json"
       THEN [raised |-> retry.raised, v |-> retry.v,
             trace |-> <<"deserialize", "deserialize:jwt">>]
       ELSE [raised |-> "ValueError", v |-> NoToken, trace |-> <<"deserialize">>]

\* what parse_response ends with: an exception, or the value returned
Outcome(raised, ret, trace) == [raised |-> raised, ret |-> ret, trace |-> trace]

\* lines 653-684 without the is_error_message branch: an error-shaped
\* message is verified and post-processed like any other
VerifyAndPostParseErrorsToo(resp, sformat, _jws, _jwe, trace) ==
    IF sformat = "text"
    THEN IF Falsy(resp) THEN Outcome("ResponseError", NoToken, trace)
         ELSE Outcome("", resp, trace)
    ELSE IF resp.t = "msg"
    THEN IF resp.c.verify # "ok"
         THEN Outcome(resp.c.verify, NoToken, trace \o <<"verify">>)
         ELSE LET attached == IF ~Falsy(_jws) THEN [resp EXCEPT !._jws = _jws]
                              ELSE IF ~Falsy(_jwe) THEN [resp EXCEPT !._jwe = _jwe]
                              ELSE resp
                  t == trace \o <<"verify", "attach", "post_parse_response">>
              IN IF Falsy(attached) THEN Outcome("ResponseError", NoToken, t)
                 ELSE Outcome("", attached, t)
    ELSE IF Falsy(resp) THEN Outcome("ResponseError", NoToken, trace)
    ELSE Outcome("", resp, trace)

\* lines 653-684 with the except clauses of lines 662-671 not re-raising: a
\* failure of verify is logged and the call goes on
VerifyAndPostParseSwallows(resp, sformat, _jws, _jwe, trace) ==
    IF sformat = "text"
    THEN IF Falsy(resp) THEN Outcome("ResponseError", NoToken, trace)
         ELSE Outcome("", resp, trace)
    ELSE IF resp.t = "msg" /\ resp.c.shape = "error"
    THEN Outcome("", resp, trace)
    ELSE IF resp.t = "msg"
    THEN LET attached == IF ~Falsy(_jws) THEN [resp EXCEPT !._jws = _jws]
                         ELSE IF ~Falsy(_jwe) THEN [resp EXCEPT !._jwe = _jwe]
                         ELSE resp
             t == trace \o <<"verify", "attach", "post_parse_response">>
         IN IF Falsy(attached) THEN Outcome("ResponseError", NoToken, t)
            ELSE Outcome("", attached, t)
    ELSE IF Falsy(resp) THEN Outcome("ResponseError", NoToken, trace)
    ELSE Outcome("", resp, trace)

\* lines 653-684 of parse_response: verification unless the format is text
\* or the response error-shaped, the raw token attached, post_parse_response,
\* and the final check of the response
VerifyAndPostParse(resp, sformat, _jws, _jwe, trace) ==
    IF sformat = "text"
    THEN IF Falsy(resp) THEN Outcome("ResponseError", NoToken, trace)
         ELSE Outcome("", resp, trace)
    ELSE IF resp.t = "msg" /\ resp.c.shape = "error"
    THEN Outcome("", resp, trace)
    ELSE IF resp.t = "msg"
    THEN IF resp.c.verify # "ok"
         THEN Outcome(resp.c.verify, NoToken, trace \o <<"verify">>)
         ELSE LET attached == IF ~Falsy(_jws) THEN [resp EXCEPT !._jws = _jws]
                              ELSE IF ~Falsy(_jwe) THEN [resp EXCEPT !._jwe = _jwe]
                              ELSE resp
                  \* post_parse_response returns the response it is given
                  t == trace \o <<"verify", "attach", "post_parse_response">>
              IN IF Falsy(attached) THEN Outcome("ResponseError", NoToken, t)
                 ELSE Outcome("", attached, t)
    ELSE IF Falsy(resp) THEN Outcome("ResponseError", NoToken, trace)
    ELSE Outcome("", resp, trace)

\* Service.parse_response(info, sformat) of a service with response body
\* type svc_body_type and response class cls
parse_response(svc_body_type, cls, payload, sformat0) ==
    LET sformat == IF sformat0 = "" THEN svc_body_type ELSE sformat0
        d == Decode(Raw(payload), sformat)
        r == _do_response(d.info, d.sformat)
    IN IF d.raised # "" THEN Outcome(d.raised, NoToken, d.trace)
       ELSE IF d.resp # NoToken
       THEN VerifyAndPostParse(d.resp, d.sformat, d._jws, d._jwe, d.trace)
       \* if self.response_cls == list and info == []: return info
       ELSE IF cls = "list" /\ d.info.t = "obj" /\ d.info.c.shape = "list0"
       THEN Outcome("", d.info, d.trace)
       ELSE IF Falsy(d.info)
       THEN Outcome("ResponseError", NoToken, d.trace)
       ELSE IF d.sformat = "text"
       THEN VerifyAndPostParse(d.info, d.sformat, d._jws, d._jwe, d.trace)
       ELSE IF r.raised # ""
       THEN Outcome(r.raised, NoToken, d.trace \o r.trace)
       ELSE VerifyAndPostParse(r.v, d.sformat, d._jws, d._jwe, d.trace \o r.trace)

---------------------------------------------------------------------------
(* The service under parsing of responses *)

\* configurations that differ in the response body type and class
ParseConfs ==
    {Update(a, b) :
        a \in {EmptyDict, Put(EmptyDict, "response_body_type", "jose")},
        b \in {EmptyDict, Put(EmptyDict, "response_cls", "list")}}

InitParse ==
    \E c \in ParseConfs :
        InitService(c, {"state", "scope"},
                    [usage |-> EmptyDict, registered |-> EmptyDict,
                     client_authn_methods |-> EmptyDict, issuer |-> "https://op",
                     provider_info |-> EmptyDict])

\* the formats a caller may declare
Formats == {"json", "urlencoded", "jwt", "jws", "jwe", "jose", "text"}

\* a call of parse_response(info, sformat)
ParseResponse ==
    /\ \E payload \in Payloads, sformat \in {""} \cup Formats :
           result' = [op |-> "parse_response", info |-> payload, sformat |-> sformat,
                      out |-> parse_response(response_body_type, response_cls,
                                             payload, sformat)]
    /\ UNCHANGED <<svcVars, hookVars>>

NextParse == ParseResponse

SpecParse == InitParse /\ [][NextParse]_vars

---------------------------------------------------------------------------
(* Properties of response parsing *)

\* the format a call of parse_response works with
EffectiveFormat == IF result.sformat = "" THEN response_body_type ELSE result.sformat

\* event e is among the steps the call took
Took(e) == \E i \in 1..Len(result.out.trace) : result.out.trace[i] = e

\* the number of times the call took step e
TimesTook(e) == Cardinality({i \in 1..Len(result.out.trace) : result.out.trace[i] = e})

\* C1: parse_response of the empty payload with declared format json (named
\* in the call or taken from response_body_type) raises ResponseError and
\* nothing else.
C1_EmptyJsonRaisesResponseError ==
    (result.op = "parse_response" /\ EffectiveFormat = "json"
        /\ result.info.kind = "empty")
    => result.out.raised = "ResponseError"

\* C2: with declared format json, a payload that is not JSON text the
\* response schema accepts is retried exactly once as a signed/encrypted
\* token; when the token unpacks into the schema the call returns that
\* message, and the call fails only when the retry fails too.
C2_JsonRetriesAsToken ==
    LET p == result.info
        fits == p.content.shape \in {"response", "error"}
        as_json == p.kind = "json" /\ fits
        as_token == p.kind \in {"jws", "jwe"} /\ p.unpack_ok /\ fits
    IN (result.op = "parse_response" /\ EffectiveFormat = "json"
           /\ p.kind # "empty" /\ ~as_json)
       => /\ TimesTook("deserialize:jwt") = 1
          /\ as_token /\ p.content.verify = "ok" =>
                 /\ result.out.raised = ""
                 /\ result.out.ret.c = p.content
          /\ result.out.raised \in {"JSONDecodeError", "ValueError", "DeserializationError"}
                 => ~as_token

\* C7: for a compact signed token, parse_response with declared format jose
\* takes the JWS probe's yes, unpacks the token, and ends as the call with
\* declared format jws on the same string does: both succeed with the same
\* message or both fail.
C7_JoseAgreesWithJws ==
    (result.op = "parse_response" /\ EffectiveFormat = "jose"
        /\ result.info.kind = "jws")
    => LET as_jws == parse_response(response_body_type, response_cls, result.info, "jws")
       IN /\ Len(result.out.trace) >= 2
          /\ result.out.trace[1] = "jws_factory"
          /\ result.out.trace[2] = "_do_jwt"
          /\ (result.out.raised = "") <=> (as_jws.raised = "")
          /\ result.out.ret = as_jws.ret
          /\ result.info.unpack_ok =>
                 /\ result.out.raised = as_jws.raised
                 /\ result.out.trace = <<"jws_factory">> \o as_jws.trace

\* C7 witness: a signed token that unpacks and verifies, declared jose,
\* returned with its claims and the raw string.
C7_Witness ==
    /\ result.op = "parse_response"
    /\ result.sformat = "jose"
    /\ result.info.kind = "jws"
    /\ result.info.content = [shape |-> "response", verify |-> "ok"]
    /\ result.out.raised = ""
    /\ result.out.ret.c = result.info.content
    /\ result.out.ret._jws = Raw(result.info)

\* C7 second case, reached as well: a signed token that does not unpack,
\* declared jose, fails.
C7_FailureReached ==
    /\ result.op = "parse_response"
    /\ result.sformat = "jose"
    /\ result.info.kind = "jws"
    /\ ~result.info.unpack_ok
    /\ result.out.raised # ""

\* the payload decodes, in the format the call works with, to content the
\* response class takes
DecodesToMessage ==
    LET p == result.info
    IN \/ EffectiveFormat = "json" /\ p.kind = "json"
       \/ EffectiveFormat = "urlencoded" /\ p.kind = "form"
       \/ EffectiveFormat \in {"jwt", "jws"} /\ p.kind \in {"jws", "jwe"} /\ p.unpack_ok
       \/ EffectiveFormat = "jwe" /\ p.kind = "jwe" /\ p.unpack_ok
       \/ EffectiveFormat = "jose" /\ p.kind = "jws" /\ p.unpack_ok

\* C8: a response decoded as error-shaped is returned without the message's
\* verify and without post_parse_response; a text response is returned as
\* received, without deserialization, verify or post_parse_response.
C8_ErrorAndTextSkipVerify ==
    result.op = "parse_response" =>
        /\ (DecodesToMessage /\ result.info.content.shape = "error") =>
               /\ result.out.raised = ""
               /\ result.out.ret.t = "msg"
               /\ result.out.ret.c = result.info.content
               /\ ~Took("verify") /\ ~Took("post_parse_response")
        /\ (result.out.raised = "" /\ result.out.ret.t = "msg"
               /\ result.out.ret.c.shape = "error") =>
               ~Took("verify") /\ ~Took("post_parse_response")
        /\ (EffectiveFormat = "text" /\ result.info.kind # "empty") =>
               /\ result.out.raised = ""
               /\ result.out.ret = Raw(result.info)
               /\ result.out.trace = <<>>

\* C8 witness: an error-shaped JSON response whose verify would fail, returned.
C8_Witness ==
    /\ result.op = "parse_response"
    /\ result.sformat = "json"
    /\ result.info.kind = "json"
    /\ result.info.content = [shape |-> "error", verify |-> "VerificationError"]
    /\ result.out.raised = ""
    /\ result.out.ret.c.shape = "error"
    /\ result.out.trace = <<"json.loads", "deserialize">>

\* C8 second case, reached as well: a text response returned as received.
C8_TextReached ==
    /\ result.op = "parse_response"
    /\ result.sformat = "text"
    /\ result.info.kind = "jws"
    /\ result.out.ret = Raw(result.info)

\* C9: a verified response of a token-carrying format (jwt, jws, jwe, jose)
\* carries the raw string of the payload, in _jws when the payload is a
\* signed token and in _jwe when it is an encrypted token.
C9_RawTokenAttached ==
    (result.op = "parse_response" /\ EffectiveFormat \in {"jwt", "jws", "jwe", "jose"}
        /\ result.out.raised = "" /\ result.out.ret.t = "msg" /\ Took("verify"))
    => /\ result.info.kind = "jws" => result.out.ret._jws = Raw(result.info)
       /\ result.info.kind = "jwe" => result.out.ret._jwe = Raw(result.info)

\* C12: with declared format jose the JWS probe is the first step; whenever
\* it does not recognise the payload (a negative answer or a failure) the JWE
\* probe is the next step, and a payload the JWE probe recognises is
\* unwrapped; only when neither probe recognises the payload is it carried on
\* without unwrapping, parsed as JSON when it is a non-empty string.
C12_JweProbeAfterJws ==
    LET p == result.info
        trace == result.out.trace
    IN (result.op = "parse_response" /\ EffectiveFormat = "jose") =>
           /\ trace[1] = "jws_factory"
           /\ p.jws_probe # "yes" =>
                  /\ Len(trace) >= 2 /\ trace[2] = "jwe_factory"
                  /\ p.jwe_probe = "yes" => (Len(trace) >= 3 /\ trace[3] = "_do_jwt")
                  /\ p.jwe_probe # "yes" =>
                         /\ ~Took("_do_jwt")
                         /\ p.kind # "empty" => Took("json.loads")

\* steps a and b are both among the steps of the call, a before b
TookBefore(a, b) ==
    \E i, j \in 1..Len(result.out.trace) :
        i < j /\ result.out.trace[i] = a /\ result.out.trace[j] = b

\* C13: a response that decodes to a message that is not error-shaped is
\* verified, and when its verify fails (MissingSigningKey or any other
\* failure) parse_response raises that same failure: nothing is returned, the
\* raw token is not attached and post_parse_response is not invoked.
\* post_parse_response is invoked only after a verify that succeeded.
C13_VerifyFailurePropagates ==
    result.op = "parse_response" =>
        /\ (DecodesToMessage /\ result.info.content.shape = "response") => Took("verify")
        /\ (Took("verify") /\ result.info.content.verify # "ok") =>
               /\ result.out.raised = result.info.content.verify
               /\ result.out.ret = NoToken
               /\ ~Took("attach")
               /\ ~Took("post_parse_response")
        /\ Took("post_parse_response") =>
               /\ result.info.content.verify = "ok"
               /\ TookBefore("verify", "post_parse_response")

\* C13 witness: a signed token that unpacks to a response whose verify finds
\* no signing key; the call raised MissingSigningKey.
C13_Witness ==
    /\ result.op = "parse_response"
    /\ EffectiveFormat = "jws"
    /\ result.info.kind = "jws"
    /\ result.info.content = [shape |-> "response", verify |-> "MissingSigningKey"]
    /\ Took("verify")
    /\ result.out.raised = "MissingSigningKey"

\* C13, further case reached: a JSON response whose verify fails otherwise;
\* the call raised that failure.
C13_OtherFailureReached ==
    /\ result.op = "parse_response"
    /\ EffectiveFormat = "json"
    /\ result.info.content = [shape |-> "response", verify |-> "VerificationError"]
    /\ Took("verify")
    /\ result.out.raised = "VerificationError"

====
